---- MODULE Spec2Model ----
(***************************************************************************)
(* A model of the voice bot of src/server/bot.py: the avatar animator      *)
(* (TalkingAnimation), the transport / RTVI event handlers registered in   *)
(* main, and the weather tool function registered with the LLM service;    *)
(* and of the launcher of src/server/server.py: create_room_and_token,     *)
(* start, cleanup and the lifespan's shutdown.                             *)
(***************************************************************************)
EXTENDS Integers, Sequences, FiniteSets, TLC

\* ------------------------------------------------------------------ bounds
\* Frames delivered to TalkingAnimation.process_frame in one run.
MaxFrames == 4
\* Occurrences of transport / RTVI events in one run.
MaxEvents == 3
\* Function calls the LLM service makes in one run.
MaxToolCalls == 2
\* Requests that call start() in one run of the server.
MaxStarts == 2

\* ------------------------------------------------------------ frame values
\* The frame types TalkingAnimation.process_frame tells apart with isinstance
\* (bot.py:108, bot.py:113); OtherFrame is a frame of any other type.
BotStartedSpeakingFrame == "BotStartedSpeakingFrame"
BotStoppedSpeakingFrame == "BotStoppedSpeakingFrame"
OtherFrame == "OtherFrame"
FrameTypes == {BotStartedSpeakingFrame, BotStoppedSpeakingFrame, OtherFrame}

\* FrameDirection, the second argument of process_frame.  DEFAULT is the
\* direction of a push_frame call that passes none (bot.py:110, bot.py:114).
DOWNSTREAM == "DOWNSTREAM"
UPSTREAM == "UPSTREAM"
DEFAULT == "DEFAULT"
FrameDirection == {DOWNSTREAM, UPSTREAM}

\* The two avatar images built at import time (bot.py:81-84).
quiet_frame == "quiet_frame"
talking_frame == "talking_frame"

\* The frame get_context_frame() builds from the conversation context
\* (bot.py:262).
OpenAILLMContextFrame == "OpenAILLMContextFrame"

\* The events main registers a handler for (bot.py:257, 264, 271).
EventNames == {"on_client_ready", "on_first_participant_joined", "on_participant_left"}

\* The function name main registers with the LLM service (bot.py:187).
RegisteredFunctions == {"get_current_weather"}

\* The "format" argument of the weather function's schema (bot.py:200-204).
Formats == {"celsius", "fahrenheit"}

\* The filler utterance and the result of fetch_weather_from_api
\* (bot.py:128, bot.py:129).
TTSSpeakFrame == [type |-> "TTSSpeakFrame", text |-> "Let me check on that."]
WeatherResult == [conditions |-> "nice", temperature |-> "75"]

\* The messages the conversation context is built from (bot.py:213-223).
SystemMessage == [role |-> "system", content |-> "You are Chatbot"]

\* Python's None, and what os.getenv and the Daily REST helper can hand back:
\* nothing, an empty string, or a value (server.py:66-67, 69-70, 74-75).
None == "<None>"
EnvRoomUrls == {None, "", "https://env.daily.co/room"}
EnvTokens == {None, "", "env-token"}
CreatedRoomUrls == {"", "https://new.daily.co/room"}
CreatedTokens == {"", "new-token"}

\* Python truthiness of an optional string: `if not room_url` (server.py:68).
Truthy(v) == v \notin {None, ""}

\* A value as the f-string of the command line renders it (server.py:124).
Format(v) == IF v = None THEN "None" ELSE v

VARIABLES
  is_talking,   \* TalkingAnimation._is_talking
  pushed,       \* every frame the animator passed to push_frame, in order
  log,          \* one record per process_frame call: its arguments and pushes
  handlers,     \* one record per event occurrence: the event and its handler's position
  queue,        \* the frames queued into the PipelineTask, in order
  trace,        \* the calls the handlers made on their collaborators, in order
  tool_calls,   \* one record per function call: its arguments and the function's position
  llm_pushed,   \* the frames pushed through llm.push_frame, in order
  context,      \* the messages of the conversation context
  generations,  \* the context snapshots handed to the language model to regenerate
  tool_trace,   \* what each function call did, in order
  env,          \* DAILY_SAMPLE_ROOM_URL and DAILY_SAMPLE_ROOM_TOKEN
  server,       \* the lifespan's position: serving, closing, stopped
  starts,       \* one record per start() call: its position, locals and outcome
  procs,        \* every process Popen created, by pid: its command line and state
  bot_procs     \* server.bot_procs: pid -> (proc, room_url)

animVars == <<is_talking, pushed, log>>
eventVars == <<handlers, queue, trace>>
toolVars == <<tool_calls, llm_pushed, context, generations, tool_trace>>
serverVars == <<env, server, starts, procs, bot_procs>>
vars == <<is_talking, pushed, log, handlers, queue, trace,
          tool_calls, llm_pushed, context, generations, tool_trace,
          env, server, starts, procs, bot_procs>>

\* ------------------------------------------------------- TalkingAnimation
\* TalkingAnimation.__init__
TalkingAnimationInit ==
  /\ is_talking = FALSE
  /\ pushed = <<>>
  /\ log = <<>>

\* self.push_frame(frame[, direction]) as a value: the frame and its direction.
Push(frame, direction) == [frame |-> frame, direction |-> direction]

\* A plausible slip: no guard on BotStartedSpeakingFrame.
process_frame_restarts(frame, direction) ==
  LET images == IF frame = BotStartedSpeakingFrame
                  THEN <<Push(talking_frame, DEFAULT)>>
                ELSE IF frame = BotStoppedSpeakingFrame
                  THEN <<Push(quiet_frame, DEFAULT)>>
                ELSE <<>>
      out == images \o <<Push(frame, direction)>>
  IN /\ is_talking' = (IF frame = BotStartedSpeakingFrame THEN TRUE
                       ELSE IF frame = BotStoppedSpeakingFrame THEN FALSE
                       ELSE is_talking)
     /\ pushed' = pushed \o out
     /\ log' = Append(log, [frame |-> frame, direction |-> direction, out |-> out])
     /\ UNCHANGED eventVars
     /\ UNCHANGED toolVars
     /\ UNCHANGED serverVars

\* A plausible slip: BotStoppedSpeakingFrame guarded the way
\* BotStartedSpeakingFrame is.
process_frame_guarded_stop(frame, direction) ==
  LET images == IF frame = BotStartedSpeakingFrame
                  THEN IF ~is_talking THEN <<Push(talking_frame, DEFAULT)>> ELSE <<>>
                ELSE IF frame = BotStoppedSpeakingFrame
                  THEN IF is_talking THEN <<Push(quiet_frame, DEFAULT)>> ELSE <<>>
                ELSE <<>>
      out == images \o <<Push(frame, direction)>>
  IN /\ is_talking' = (IF frame = BotStartedSpeakingFrame THEN TRUE
                       ELSE IF frame = BotStoppedSpeakingFrame THEN FALSE
                       ELSE is_talking)
     /\ pushed' = pushed \o out
     /\ log' = Append(log, [frame |-> frame, direction |-> direction, out |-> out])
     /\ UNCHANGED eventVars
     /\ UNCHANGED toolVars
     /\ UNCHANGED serverVars

\* A plausible slip: a speech-activity signal is pushed inside its branch as
\* well as by the final push_frame.
process_frame_forwards_twice(frame, direction) ==
  LET images == IF frame = BotStartedSpeakingFrame
                  THEN IF ~is_talking THEN <<Push(talking_frame, DEFAULT)>> ELSE <<>>
                ELSE IF frame = BotStoppedSpeakingFrame
                  THEN <<Push(quiet_frame, DEFAULT)>>
                ELSE <<>>
      again == IF frame \in {BotStartedSpeakingFrame, BotStoppedSpeakingFrame}
                 THEN <<Push(frame, direction)>> ELSE <<>>
      out == images \o again \o <<Push(frame, direction)>>
  IN /\ is_talking' = (IF frame = BotStartedSpeakingFrame THEN TRUE
                       ELSE IF frame = BotStoppedSpeakingFrame THEN FALSE
                       ELSE is_talking)
     /\ pushed' = pushed \o out
     /\ log' = Append(log, [frame |-> frame, direction |-> direction, out |-> out])
     /\ UNCHANGED eventVars
     /\ UNCHANGED toolVars
     /\ UNCHANGED serverVars

\* A plausible slip: the final push_frame passes no direction.
process_frame_drops_direction(frame, direction) ==
  LET images == IF frame = BotStartedSpeakingFrame
                  THEN IF ~is_talking THEN <<Push(talking_frame, DEFAULT)>> ELSE <<>>
                ELSE IF frame = BotStoppedSpeakingFrame
                  THEN <<Push(quiet_frame, DEFAULT)>>
                ELSE <<>>
      out == images \o <<Push(frame, DEFAULT)>>
  IN /\ is_talking' = (IF frame = BotStartedSpeakingFrame THEN TRUE
                       ELSE IF frame = BotStoppedSpeakingFrame THEN FALSE
                       ELSE is_talking)
     /\ pushed' = pushed \o out
     /\ log' = Append(log, [frame |-> frame, direction |-> direction, out |-> out])
     /\ UNCHANGED eventVars
     /\ UNCHANGED toolVars
     /\ UNCHANGED serverVars

\* A plausible slip: the BotStoppedSpeakingFrame branch does not reset
\* _is_talking.
process_frame_never_idle(frame, direction) ==
  LET images == IF frame = BotStartedSpeakingFrame
                  THEN IF ~is_talking THEN <<Push(talking_frame, DEFAULT)>> ELSE <<>>
                ELSE IF frame = BotStoppedSpeakingFrame
                  THEN <<Push(quiet_frame, DEFAULT)>>
                ELSE <<>>
      out == images \o <<Push(frame, direction)>>
  IN /\ is_talking' = (IF frame = BotStartedSpeakingFrame THEN TRUE ELSE is_talking)
     /\ pushed' = pushed \o out
     /\ log' = Append(log, [frame |-> frame, direction |-> direction, out |-> out])
     /\ UNCHANGED eventVars
     /\ UNCHANGED toolVars
     /\ UNCHANGED serverVars

\* TalkingAnimation.process_frame(frame, direction): the whole handler.
process_frame(frame, direction) ==
  LET images == IF frame = BotStartedSpeakingFrame
                  THEN IF ~is_talking THEN <<Push(talking_frame, DEFAULT)>> ELSE <<>>
                ELSE IF frame = BotStoppedSpeakingFrame
                  THEN <<Push(quiet_frame, DEFAULT)>>
                ELSE <<>>
      out == images \o <<Push(frame, direction)>>
  IN /\ is_talking' = (IF frame = BotStartedSpeakingFrame THEN TRUE
                       ELSE IF frame = BotStoppedSpeakingFrame THEN FALSE
                       ELSE is_talking)
     /\ pushed' = pushed \o out
     /\ log' = Append(log, [frame |-> frame, direction |-> direction, out |-> out])
     /\ UNCHANGED eventVars
     /\ UNCHANGED toolVars
     /\ UNCHANGED serverVars

\* A frame of any type reaches the animator from either neighbour.
ProcessFrame ==
  /\ Len(log) < MaxFrames
  /\ \E frame \in FrameTypes, direction \in FrameDirection :
       process_frame(frame, direction)

\* ---------------------------------------------------------- event handlers
\* main, before runner.run(task): no event has occurred, nothing is queued.
MainInit ==
  /\ handlers = <<>>
  /\ queue = <<>>
  /\ trace = <<>>

\* The first await of the handler registered for an event.
FirstStep(event) ==
  CASE event = "on_client_ready" -> "set_bot_ready"
    [] event = "on_first_participant_joined" -> "queue_frame"
    [] event = "on_participant_left" -> "cancel"

\* A call made by handler h on one of its collaborators.
Call(h, name) == [by |-> h, call |-> name]

\* An event occurs and its handler is started.  The first participant joins
\* at most once.
Fire(event) ==
  /\ Len(handlers) < MaxEvents
  /\ event = "on_first_participant_joined" =>
       \A h \in DOMAIN handlers : handlers[h].event # event
  /\ handlers' = Append(handlers, [event |-> event, pc |-> FirstStep(event)])
  /\ UNCHANGED <<queue, trace>>
  /\ UNCHANGED animVars
  /\ UNCHANGED toolVars
  /\ UNCHANGED serverVars

\* A plausible slip: the context frame is queued before readiness is sent.
on_client_ready_queues_first(h) ==
  /\ handlers[h].event = "on_client_ready"
  /\ \/ /\ handlers[h].pc = "set_bot_ready"
        /\ queue' = Append(queue, OpenAILLMContextFrame)
        /\ trace' = Append(trace, Call(h, "queue_frames"))
        /\ handlers' = [handlers EXCEPT ![h].pc = "queue_frames"]
     \/ /\ handlers[h].pc = "queue_frames"
        /\ trace' = Append(trace, Call(h, "set_bot_ready"))
        /\ handlers' = [handlers EXCEPT ![h].pc = "done"]
        /\ UNCHANGED queue
  /\ UNCHANGED animVars
  /\ UNCHANGED toolVars
  /\ UNCHANGED serverVars

\* on_client_ready(rtvi), one await at a time.
on_client_ready(h) ==
  /\ handlers[h].event = "on_client_ready"
  /\ \/ /\ handlers[h].pc = "set_bot_ready"
        /\ trace' = Append(trace, Call(h, "set_bot_ready"))
        /\ handlers' = [handlers EXCEPT ![h].pc = "queue_frames"]
        /\ UNCHANGED queue
     \/ /\ handlers[h].pc = "queue_frames"
        /\ queue' = Append(queue, OpenAILLMContextFrame)
        /\ trace' = Append(trace, Call(h, "queue_frames"))
        /\ handlers' = [handlers EXCEPT ![h].pc = "done"]
  /\ UNCHANGED animVars
  /\ UNCHANGED toolVars
  /\ UNCHANGED serverVars

\* on_first_participant_joined(transport, participant), one await at a time.
on_first_participant_joined(h) ==
  /\ handlers[h].event = "on_first_participant_joined"
  /\ \/ /\ handlers[h].pc = "queue_frame"
        /\ queue' = Append(queue, quiet_frame)
        /\ trace' = Append(trace, Call(h, "queue_frame"))
        /\ handlers' = [handlers EXCEPT ![h].pc = "capture_participant_transcription"]
     \/ /\ handlers[h].pc = "capture_participant_transcription"
        /\ trace' = Append(trace, Call(h, "capture_participant_transcription"))
        /\ handlers' = [handlers EXCEPT ![h].pc = "done"]
        /\ UNCHANGED queue
  /\ UNCHANGED animVars
  /\ UNCHANGED toolVars
  /\ UNCHANGED serverVars

\* on_participant_left(transport, participant, reason).
on_participant_left(h) ==
  /\ handlers[h].event = "on_participant_left"
  /\ handlers[h].pc = "cancel"
  /\ trace' = Append(trace, Call(h, "cancel"))
  /\ handlers' = [handlers EXCEPT ![h].pc = "done"]
  /\ UNCHANGED queue
  /\ UNCHANGED animVars
  /\ UNCHANGED toolVars
  /\ UNCHANGED serverVars

ClientReady == Fire("on_client_ready")
FirstParticipantJoined == Fire("on_first_participant_joined")
ParticipantLeft == Fire("on_participant_left")
OnClientReady == \E h \in DOMAIN handlers : on_client_ready(h)
OnFirstParticipantJoined == \E h \in DOMAIN handlers : on_first_participant_joined(h)
OnParticipantLeft == \E h \in DOMAIN handlers : on_participant_left(h)

\* ------------------------------------------------------------ tool calls
\* main, before runner.run(task): the context holds the system message and
\* no function has been called.
ToolInit ==
  /\ tool_calls = <<>>
  /\ llm_pushed = <<>>
  /\ context = <<SystemMessage>>
  /\ generations = <<>>
  /\ tool_trace = <<>>

\* The language model asks for a registered function and the LLM service
\* starts the function registered under that name.
FunctionCall ==
  /\ Len(tool_calls) < MaxToolCalls
  /\ \E function_name \in RegisteredFunctions, format \in Formats :
       tool_calls' = Append(tool_calls,
                            [function_name |-> function_name,
                             tool_call_id |-> Len(tool_calls) + 1,
                             args |-> [format |-> format],
                             pc |-> "push_frame",
                             regenerated |-> FALSE])
  /\ UNCHANGED <<llm_pushed, context, generations, tool_trace>>
  /\ UNCHANGED animVars
  /\ UNCHANGED eventVars
  /\ UNCHANGED serverVars

\* result_callback(result) of function call t: the result is appended to the
\* conversation context as a tool-result message.
result_callback(t, result) ==
  /\ context' = Append(context, [role |-> "tool",
                                 tool_call_id |-> tool_calls[t].tool_call_id,
                                 content |-> result])
  /\ tool_trace' = Append(tool_trace, Call(t, "result_callback"))

\* A plausible slip: the result is delivered before the filler is spoken.
fetch_weather_from_api_result_first(t) ==
  /\ \/ /\ tool_calls[t].pc = "push_frame"
        /\ result_callback(t, WeatherResult)
        /\ tool_calls' = [tool_calls EXCEPT ![t].pc = "result_callback"]
        /\ UNCHANGED llm_pushed
     \/ /\ tool_calls[t].pc = "result_callback"
        /\ llm_pushed' = Append(llm_pushed, TTSSpeakFrame)
        /\ tool_trace' = Append(tool_trace, Call(t, "push_frame"))
        /\ tool_calls' = [tool_calls EXCEPT ![t].pc = "returned"]
        /\ UNCHANGED context
  /\ UNCHANGED generations
  /\ UNCHANGED animVars
  /\ UNCHANGED eventVars
  /\ UNCHANGED serverVars

\* fetch_weather_from_api(function_name, tool_call_id, args, llm, context,
\* result_callback), one await at a time.
fetch_weather_from_api(t) ==
  /\ \/ /\ tool_calls[t].pc = "push_frame"
        /\ llm_pushed' = Append(llm_pushed, TTSSpeakFrame)
        /\ tool_trace' = Append(tool_trace, Call(t, "push_frame"))
        /\ tool_calls' = [tool_calls EXCEPT ![t].pc = "result_callback"]
        /\ UNCHANGED context
     \/ /\ tool_calls[t].pc = "result_callback"
        /\ result_callback(t, WeatherResult)
        /\ tool_calls' = [tool_calls EXCEPT ![t].pc = "returned"]
        /\ UNCHANGED llm_pushed
  /\ UNCHANGED generations
  /\ UNCHANGED animVars
  /\ UNCHANGED eventVars
  /\ UNCHANGED serverVars

\* The tool-result message of function call t is in the context.
HasToolResult(t) ==
  \E i \in DOMAIN context :
    /\ context[i].role = "tool"
    /\ context[i].tool_call_id = tool_calls[t].tool_call_id

\* Regeneration is triggered for function call t: once its result is in the
\* context, a snapshot of the context is handed to the language model.
Regenerate(t) ==
  /\ HasToolResult(t)
  /\ ~tool_calls[t].regenerated
  /\ generations' = Append(generations, context)
  /\ tool_trace' = Append(tool_trace, Call(t, "regenerate"))
  /\ tool_calls' = [tool_calls EXCEPT ![t].regenerated = TRUE]
  /\ UNCHANGED <<llm_pushed, context>>
  /\ UNCHANGED animVars
  /\ UNCHANGED eventVars
  /\ UNCHANGED serverVars

FetchWeatherFromApi == \E t \in DOMAIN tool_calls : fetch_weather_from_api(t)
TriggerRegeneration == \E t \in DOMAIN tool_calls : Regenerate(t)

\* ---------------------------------------------------------------- server
\* The module's globals at import time and the lifespan up to its yield: the
\* environment is whatever the .env file and the shell set.
ServerInit ==
  /\ env \in [url : EnvRoomUrls, token : EnvTokens]
  /\ server = "serving"
  /\ starts = <<>>
  /\ procs = <<>>
  /\ bot_procs = <<>>

otherVars == <<is_talking, pushed, log, handlers, queue, trace,
               tool_calls, llm_pushed, context, generations, tool_trace>>

\* start_agent / rtvi_connect: a request arrives and calls start().
StartRequest ==
  /\ server = "serving"
  /\ Len(starts) < MaxStarts
  /\ starts' = Append(starts, [pc |-> "start", room_url |-> None, token |-> None,
                               result |-> <<>>])
  /\ UNCHANGED <<env, server, procs, bot_procs>>
  /\ UNCHANGED otherVars

\* create_room_and_token raises HTTPException and start() propagates it.
Raise(r) ==
  /\ starts' = [starts EXCEPT ![r].pc = "raised"]
  /\ UNCHANGED <<procs, bot_procs>>

\* start() after create_room_and_token returned (room_url, token): Popen,
\* bot_procs[proc.pid] = (proc, room_url), return room_url, token.  The pid is
\* one no live or unreaped process has.
Spawn(r, room_url, token) ==
  LET pid == Len(procs) + 1
  IN /\ procs' = Append(procs, [by |-> r, state |-> "running",
                                u |-> Format(room_url), t |-> Format(token)])
     /\ bot_procs' = [p \in DOMAIN bot_procs \cup {pid} |->
                        IF p = pid THEN [proc |-> pid, room_url |-> room_url]
                        ELSE bot_procs[p]]
     /\ starts' = [starts EXCEPT ![r] = [pc |-> "returned", room_url |-> room_url,
                                         token |-> token,
                                         result |-> <<room_url, token>>]]

\* start() with create_room_and_token inlined, one await at a time.
start(r) ==
  /\ server # "stopped"
  /\ \/ /\ starts[r].pc = "start"
        /\ IF Truthy(env.url)
             THEN Spawn(r, env.url, env.token)
             ELSE /\ starts' = [starts EXCEPT ![r] = [pc |-> "create_room",
                                                      room_url |-> env.url,
                                                      token |-> env.token,
                                                      result |-> <<>>]]
                  /\ UNCHANGED <<procs, bot_procs>>
     \/ /\ starts[r].pc = "create_room"
        /\ \E url \in CreatedRoomUrls :
             IF ~Truthy(url)
               THEN Raise(r)
               ELSE /\ starts' = [starts EXCEPT ![r].pc = "get_token",
                                                ![r].room_url = url]
                    /\ UNCHANGED <<procs, bot_procs>>
     \/ /\ starts[r].pc = "get_token"
        /\ \E token \in CreatedTokens :
             IF ~Truthy(token)
               THEN Raise(r)
               ELSE Spawn(r, starts[r].room_url, token)
  /\ UNCHANGED <<env, server>>
  /\ UNCHANGED otherVars

\* A bot process ends by itself (runner.py returns).
BotExits ==
  /\ \E p \in DOMAIN procs :
       /\ procs[p].state = "running"
       /\ procs' = [procs EXCEPT ![p].state = "exited"]
  /\ UNCHANGED <<env, server, starts, bot_procs>>
  /\ UNCHANGED otherVars

\* lifespan after its yield: await aiohttp_session.close().
CloseSession ==
  /\ server = "serving"
  /\ server' = "closing"
  /\ UNCHANGED <<env, starts, procs, bot_procs>>
  /\ UNCHANGED otherVars

\* A plausible slip: cleanup() terminates the processes and does not wait.
cleanup_no_wait ==
  /\ procs' = [p \in DOMAIN procs |->
                 IF p \in DOMAIN bot_procs /\ procs[p].state = "running"
                   THEN [procs[p] EXCEPT !.state = "terminating"]
                   ELSE procs[p]]
  /\ UNCHANGED bot_procs

\* cleanup(): proc.terminate() and proc.wait() for every entry of bot_procs.
cleanup ==
  /\ procs' = [p \in DOMAIN procs |->
                 IF p \in DOMAIN bot_procs
                   THEN [procs[p] EXCEPT !.state = "waited"]
                   ELSE procs[p]]
  /\ UNCHANGED bot_procs

\* lifespan after the session is closed: cleanup(), and the server is gone.
Shutdown ==
  /\ server = "closing"
  /\ cleanup
  /\ server' = "stopped"
  /\ UNCHANGED <<env, starts>>
  /\ UNCHANGED otherVars

Start == \E r \in DOMAIN starts : start(r)

Init == TalkingAnimationInit /\ MainInit /\ ToolInit /\ ServerInit

NextAnimator == ProcessFrame

SpecAnimator == Init /\ [][NextAnimator]_vars

NextEvents ==
  \/ ClientReady
  \/ FirstParticipantJoined
  \/ ParticipantLeft
  \/ OnClientReady
  \/ OnFirstParticipantJoined
  \/ OnParticipantLeft

SpecEvents == Init /\ [][NextEvents]_vars

NextTool ==
  \/ FunctionCall
  \/ FetchWeatherFromApi
  \/ TriggerRegeneration

SpecTool == Init /\ [][NextTool]_vars

NextServer ==
  \/ StartRequest
  \/ Start
  \/ BotExits
  \/ CloseSession
  \/ Shutdown

SpecServer == Init /\ [][NextServer]_vars

\* ---------------------------------------------------- claims: the animator
IsSignal(f) == f \in {BotStartedSpeakingFrame, BotStoppedSpeakingFrame}

\* Index of the last speech-activity signal received before call i (0: none).
PrevSignal(i) ==
  LET S == {j \in 1..(i - 1) : IsSignal(log[j].frame)}
  IN IF S = {} THEN 0 ELSE CHOOSE j \in S : \A k \in S : k <= j

\* Call i is the first signal of a maximal run of equal signals.
StartsRun(i) ==
  /\ IsSignal(log[i].frame)
  /\ PrevSignal(i) = 0 \/ log[PrevSignal(i)].frame # log[i].frame

\* How many times call i pushed the image img.
Emitted(i, img) ==
  Cardinality({k \in DOMAIN log[i].out : log[i].out[k].frame = img})

\* C1: the talking sequence is emitted exactly once per maximal run of
\* consecutive BotStartedSpeaking signals: once by the first signal of the
\* run, and not at all by a BotStartedSpeaking received while already Talking
\* nor by any other frame.
C1_TalkingOncePerRun ==
  \A i \in DOMAIN log :
    Emitted(i, talking_frame) =
      IF log[i].frame = BotStartedSpeakingFrame /\ StartsRun(i) THEN 1 ELSE 0

\* Two runs of BotStartedSpeaking, the first with a duplicate signal.
C1_Witness ==
  \E i, j, k \in DOMAIN log :
    /\ i < j /\ j < k
    /\ log[i].frame = BotStartedSpeakingFrame /\ StartsRun(i)
    /\ log[j].frame = BotStartedSpeakingFrame /\ ~StartsRun(j)
    /\ Emitted(j, talking_frame) = 0
    /\ log[k].frame = BotStartedSpeakingFrame /\ StartsRun(k)

\* C2 as stated: the static image is emitted exactly once per maximal run of
\* consecutive BotStoppedSpeaking signals, a later signal of the run emitting
\* none.
C2_QuietOncePerRun ==
  \A i \in DOMAIN log :
    Emitted(i, quiet_frame) =
      IF log[i].frame = BotStoppedSpeakingFrame /\ StartsRun(i) THEN 1 ELSE 0

\* C2 as amended: the static image is emitted exactly once for every
\* BotStoppedSpeaking signal received, a repeated one included, and by no
\* other frame.
C2_QuietOncePerStopped ==
  \A i \in DOMAIN log :
    Emitted(i, quiet_frame) =
      IF log[i].frame = BotStoppedSpeakingFrame THEN 1 ELSE 0

\* A repeated BotStoppedSpeaking that emitted the static image again.
C2_Witness ==
  \E i \in DOMAIN log :
    /\ log[i].frame = BotStoppedSpeakingFrame
    /\ ~StartsRun(i)
    /\ Emitted(i, quiet_frame) = 1

\* The frames the animator received, each with the direction it arrived in.
Received == [i \in DOMAIN log |-> Push(log[i].frame, log[i].direction)]

IsSignalPush(p) == IsSignal(p.frame)
IsImagePush(p) == p.frame \in {talking_frame, quiet_frame}
IsFramePush(p) == p.frame \in FrameTypes

\* C13: the animator never originates speech-activity signals: the
\* BotStartedSpeaking / BotStoppedSpeaking frames it pushed are exactly the
\* ones it received (same count, order and direction), and everything else
\* it added to the stream is an avatar image (talking sequence or quiet image).
C13_NeverOriginatesSignals ==
  /\ SelectSeq(pushed, IsSignalPush) = SelectSeq(Received, IsSignalPush)
  /\ \A i \in DOMAIN log :
       \A k \in DOMAIN log[i].out :
         \/ IsImagePush(log[i].out[k])
         \/ k = Len(log[i].out) /\ log[i].out[k] = Received[i]

\* Both signals went through in both directions, with images added.
C13_Witness ==
  /\ \E i, j \in DOMAIN log :
       /\ log[i].frame = BotStartedSpeakingFrame /\ log[i].direction = UPSTREAM
       /\ log[j].frame = BotStoppedSpeakingFrame /\ log[j].direction = DOWNSTREAM
  /\ Len(SelectSeq(pushed, IsSignalPush)) >= 3
  /\ Len(SelectSeq(pushed, IsImagePush)) >= 2

\* The frames of s that travel in direction d.
InDirection(s, d) == SelectSeq(s, LAMBDA p : p.direction = d)

\* C16: the animator forwards every frame it receives exactly once, in the
\* direction it arrived, and keeps the relative order of the frames of each
\* direction, speech-activity signals included.
C16_ForwardsOnceInOrder ==
  /\ \A i \in DOMAIN log :
       Cardinality({k \in DOMAIN log[i].out : log[i].out[k].frame = log[i].frame}) = 1
  /\ \A d \in FrameDirection :
       InDirection(SelectSeq(pushed, IsFramePush), d) = InDirection(Received, d)
  /\ \A k \in DOMAIN pushed : IsFramePush(pushed[k]) => pushed[k].direction \in FrameDirection

\* Frames of different types went through in the same direction, a signal
\* among them, and another frame in the opposite direction.
C16_Witness ==
  \E i, j, k \in DOMAIN log :
    /\ i < j
    /\ log[i].direction = UPSTREAM /\ log[j].direction = UPSTREAM
    /\ log[i].frame = BotStoppedSpeakingFrame /\ log[j].frame = OtherFrame
    /\ log[k].direction = DOWNSTREAM
    /\ Len(pushed) > Len(log)

\* Index of the last speech-activity signal received so far (0: none).
LastSignal == PrevSignal(Len(log) + 1)

\* C17: the animator starts Idle; _is_talking is True exactly when a
\* speech-activity signal has been received and the most recent one was
\* BotStartedSpeaking; a frame of any other type changes nothing and emits
\* no image.
C17_StateIsLastSignal ==
  /\ log = <<>> => ~is_talking
  /\ is_talking <=> (LastSignal # 0 /\ log[LastSignal].frame = BotStartedSpeakingFrame)
  /\ \A i \in DOMAIN log :
       ~IsSignal(log[i].frame) => log[i].out = <<Received[i]>>

\* Talking with other frames received since the last signal, after an
\* earlier return to Idle.
C17_Witness ==
  /\ is_talking
  /\ Len(log) >= 4
  /\ log[1].frame = BotStartedSpeakingFrame
  /\ log[2].frame = BotStoppedSpeakingFrame
  /\ log[3].frame = BotStartedSpeakingFrame
  /\ log[4].frame = OtherFrame

\* ------------------------------------------------ claims: the event handlers
\* Positions of the trace where handler h made the call name.
CallsOf(h, name) == {i \in DOMAIN trace : trace[i] = Call(h, name)}

\* Positions of the trace where any handler made the call name.
CallsNamed(name) == {i \in DOMAIN trace : trace[i].call = name}

\* How many frames of type f the task's queue holds.
Queued(f) == Cardinality({i \in DOMAIN queue : queue[i] = f})

\* C3: on every occurrence of client-ready the readiness acknowledgment
\* (set_bot_ready) is sent before the context frame is queued (queue_frames);
\* no context frame is ever queued before readiness was signalled, and one is
\* queued only by the handler of a client-ready event.
C3_ReadyBeforeSnapshot ==
  /\ \A i \in CallsNamed("queue_frames") :
       /\ handlers[trace[i].by].event = "on_client_ready"
       /\ \E j \in CallsOf(trace[i].by, "set_bot_ready") : j < i
  /\ Queued(OpenAILLMContextFrame) = Cardinality(CallsNamed("queue_frames"))
  /\ Queued(OpenAILLMContextFrame) > 0 => CallsNamed("set_bot_ready") # {}
  /\ \A h \in DOMAIN handlers :
       handlers[h].event = "on_client_ready" /\ handlers[h].pc = "done" =>
         /\ Cardinality(CallsOf(h, "set_bot_ready")) = 1
         /\ Cardinality(CallsOf(h, "queue_frames")) = 1

\* Two client-ready occurrences whose handlers both ran to the end, the
\* second one sending readiness after the first had queued its context frame.
C3_Witness ==
  \E h, g \in DOMAIN handlers :
    /\ h # g
    /\ handlers[h].event = "on_client_ready" /\ handlers[h].pc = "done"
    /\ handlers[g].event = "on_client_ready" /\ handlers[g].pc = "done"
    /\ \E i \in CallsOf(h, "queue_frames"), j \in CallsOf(g, "set_bot_ready") : i < j
    /\ Queued(OpenAILLMContextFrame) = 2

\* ---------------------------------------------------- claims: tool calls
\* Positions of tool_trace where function call t did step name.
StepsOf(t, name) == {i \in DOMAIN tool_trace : tool_trace[i] = Call(t, name)}

\* The tool-result messages of function call t in the context.
ToolResults(t) ==
  {i \in DOMAIN context :
     /\ context[i].role = "tool"
     /\ context[i].tool_call_id = tool_calls[t].tool_call_id}

SpawnedBy(r) == {p \in DOMAIN procs : procs[p].by = r}

\* C14: every bot process start() spawned is tracked in bot_procs, and once
\* the lifespan has shut down (cleanup() has run) every one of them has been
\* terminated and waited for: none is left running or unreaped.
C14_ShutdownReapsEveryBot ==
  /\ \A p \in DOMAIN procs : p \in DOMAIN bot_procs /\ bot_procs[p].proc = p
  /\ server = "stopped" =>
       \A p \in DOMAIN procs : procs[p].state = "waited"

\* The server shut down after two start() calls had spawned a bot each, and
\* both bots have been waited for.
C14_Witness ==
  /\ server = "stopped"
  /\ Len(procs) = 2
  /\ \A r \in DOMAIN starts : starts[r].pc = "returned"
  /\ \A p \in DOMAIN procs : procs[p].state = "waited"

\* C15: create_room_and_token uses the room URL and token of the environment
\* and creates a room and a token when they are not found; whatever the
\* environment and the Daily API give, it either raises HTTPException or
\* returns a pair whose room URL and token are both present (non-empty).
C15_RaisesOrReturnsBoth ==
  \A r \in DOMAIN starts :
    starts[r].pc = "returned" =>
      /\ Truthy(starts[r].result[1])
      /\ Truthy(starts[r].result[2])

\* The clauses of C18 that do not involve the command line: a bot is spawned
\* and recorded only by a start() call that returned, exactly one per call,
\* keyed by its pid and holding the returned room URL.
C18_OneBotPerReturn ==
  /\ \A r \in DOMAIN starts :
       /\ starts[r].pc # "returned" => SpawnedBy(r) = {}
       /\ starts[r].pc = "returned" =>
            /\ Cardinality(SpawnedBy(r)) = 1
            /\ \A p \in SpawnedBy(r) :
                 /\ p \in DOMAIN bot_procs
                 /\ bot_procs[p] = [proc |-> p, room_url |-> starts[r].result[1]]
                 /\ procs[p].u = starts[r].result[1]
  /\ Cardinality(DOMAIN bot_procs) =
       Cardinality({r \in DOMAIN starts : starts[r].pc = "returned"})

\* C18: start() spawns and records a bot only after create_room_and_token
\* returned: a call that raised spawned nothing and left bot_procs alone; a
\* call that returned spawned exactly one subprocess with the returned room
\* URL and token, added exactly one bot_procs entry (keyed by its pid, holding
\* that room URL) and returned the same pair.
C18_SpawnOnlyAfterSuccess ==
  /\ C18_OneBotPerReturn
  /\ \A r \in DOMAIN starts :
       starts[r].pc = "returned" =>
         \A p \in SpawnedBy(r) : procs[p].t = starts[r].result[2]

====
